---- MODULE Spec2Model ----
(***************************************************************************)
(* shared_var (src/shared_var.h): a value-semantic, type-erased variant.   *)
(* A handle (class shared_var) owns a std::shared_ptr<const holder_base>   *)
(* p_; a cell (holder<T>) stores one value of one concrete type T.         *)
(*                                                                         *)
(* The state is a set of handle slots (objects of type shared_var, each    *)
(* constructed or not), the heap of cells the handles reference, and the   *)
(* use count std::shared_ptr keeps for each cell.  Every constructor,      *)
(* assignment operator and the destructor is one action; the const member  *)
(* functions and the free comparison operators are pure functions of the   *)
(* state and are operators.                                                *)
(***************************************************************************)
EXTENDS Integers, Sequences, FiniteSets

VARIABLES alive, p_, cell, use_count, status

vars == <<alive, p_, cell, use_count, status>>

(***************************************************************************)
(* Bounds of the model.                                                    *)
(***************************************************************************)
NumHandles == 2

Handles == 1 .. NumHandles
\* One cell more than there are handles: _hold creates the new cell before
\* the assignment to p_ releases the old one.
CellIds == 1 .. (NumHandles + 1)

\* The value of an empty std::shared_ptr.
Null == 0

(***************************************************************************)
(* Values.  A value carries its concrete C++ type (the T of holder<T>).    *)
(* int and double hold a number, except the double NaN; std::string and    *)
(* std::wstring hold a sequence of character codes.                        *)
(***************************************************************************)
Types == {"int", "double", "string", "wstring"}

IntV(n) == [type |-> "int", nan |-> FALSE, num |-> n, str |-> <<>>]
DoubleV(n) == [type |-> "double", nan |-> FALSE, num |-> n, str |-> <<>>]
NaN == [type |-> "double", nan |-> TRUE, num |-> 0, str |-> <<>>]
StringV(s) == [type |-> "string", nan |-> FALSE, num |-> 0, str |-> s]
WStringV(s) == [type |-> "wstring", nan |-> FALSE, num |-> 0, str |-> s]

\* The contents of the strings the program passes: "" and "a".
Strings == {<<>>, <<97>>}

\* The values of type T the program constructs handles from and assigns.
Values(T) ==
    CASE T = "int" -> {IntV(3)}
      [] T = "double" -> {DoubleV(3), NaN}
      [] T = "string" -> {StringV(s) : s \in Strings}
      [] T = "wstring" -> {WStringV(s) : s \in Strings}

AllValues == UNION {Values(T) : T \in Types}

\* T(): the value-initialized T that as<T>() falls back to.
DefaultValue(T) ==
    CASE T = "int" -> IntV(0)
      [] T = "double" -> DoubleV(0)
      [] T = "string" -> StringV(<<>>)
      [] T = "wstring" -> WStringV(<<>>)

\* T's own operator== on two values of the same type T: IEEE comparison for
\* double (NaN is unequal to everything, itself included).
ValEq(x, y) ==
    /\ ~x.nan
    /\ ~y.nan
    /\ x.num = y.num
    /\ x.str = y.str

(***************************************************************************)
(* C-strings.  A const CharT* points at a buffer of characters that holds  *)
(* a terminating NUL; std::basic_string<CharT>(p) copies the characters    *)
(* before the first NUL.                                                   *)
(***************************************************************************)
Widths == {"char", "wchar_t"}

\* The buffers the program passes: "", "a" and "a\0a", each with its
\* terminating NUL (character code 0).
CStrings == {<<0>>, <<97, 0>>, <<97, 0, 97, 0>>}

RECURSIVE UpToNul(_)
UpToNul(b) ==
    IF b = <<>> \/ Head(b) = 0 THEN <<>> ELSE <<Head(b)>> \o UpToNul(Tail(b))

\* Mutant of basic_string: the wide overload builds a narrow string too.
basic_string_narrow(W, b) == StringV(UpToNul(b))

basic_string(W, b) ==
    IF W = "char" THEN StringV(UpToNul(b)) ELSE WStringV(UpToNul(b))

(***************************************************************************)
(* The heap: std::shared_ptr / std::make_shared.                           *)
(***************************************************************************)
NoCell == [type |-> "none", nan |-> FALSE, num |-> 0, str |-> <<>>]

Live(c) == cell[c] # NoCell

\* std::make_shared<holder<T>>(val): a new cell, not one that is live.
FreshCell == CHOOSE c \in CellIds : ~Live(c) /\ \A d \in CellIds : ~Live(d) => c <= d

\* A heap is the pair of cell contents and use counts.
Heap == [cell |-> cell, use_count |-> use_count]

make_shared(H, c, v) ==
    [cell |-> [H.cell EXCEPT ![c] = v], use_count |-> [H.use_count EXCEPT ![c] = 1]]

\* Copying a shared_ptr: one more owner.
Acquire(H, c) ==
    IF c = Null THEN H
    ELSE [H EXCEPT !.use_count[c] = @ + 1]

\* Mutant of Release: the last owner leaves the cell behind.
Release_leaks(H, c) ==
    IF c = Null THEN H
    ELSE [H EXCEPT !.use_count[c] = @ - 1]

\* Destroying or overwriting a shared_ptr: one owner fewer, and the cell is
\* destroyed with its last owner.
Release(H, c) ==
    IF c = Null THEN H
    ELSE IF H.use_count[c] = 1
         THEN [cell |-> [H.cell EXCEPT ![c] = NoCell],
               use_count |-> [H.use_count EXCEPT ![c] = 0]]
         ELSE [H EXCEPT !.use_count[c] = @ - 1]

SetHeap(H) ==
    /\ cell' = H.cell
    /\ use_count' = H.use_count

(***************************************************************************)
(* Const member functions and comparison operators.                        *)
(***************************************************************************)
\* dynamic_cast<const holder<T> *>(p): succeeds when p is a holder<T>.
Downcast(c, T) == c # Null /\ cell[c].type = T

\* Mutant of holder_equals: an unchecked cast in place of dynamic_cast.
holder_equals_unchecked(c, rhs) == ValEq(cell[rhs], cell[c])

\* holder<T>::equals, on the cell c of type T, given the other cell.
holder_equals(c, rhs) ==
    IF Downcast(rhs, cell[c].type)
    THEN ValEq(cell[rhs], cell[c])
    ELSE FALSE

_equals(h, g) ==
    IF p_[h] = Null /\ p_[g] = Null THEN TRUE
    ELSE IF p_[h] # Null /\ p_[g] # Null THEN holder_equals(p_[h], p_[g])
    ELSE FALSE

\* Mutant of _equals_val: an unchecked cast in place of dynamic_cast.
_equals_val_unchecked(h, v) ==
    IF p_[h] = Null THEN FALSE
    ELSE ValEq(cell[p_[h]], v)

_equals_val(h, v) ==
    IF p_[h] = Null THEN FALSE
    ELSE IF ~Downcast(p_[h], v.type) THEN FALSE
    ELSE ValEq(cell[p_[h]], v)

\* Mutant of as: the held value is returned whatever its type.
as_unchecked(h, T) ==
    IF p_[h] # Null THEN cell[p_[h]] ELSE DefaultValue(T)

as(h, T) ==
    IF Downcast(p_[h], T) THEN cell[p_[h]] ELSE DefaultValue(T)

as_def(h, T, def) ==
    IF Downcast(p_[h], T) THEN cell[p_[h]] ELSE def

\* is<T>() for T other than nullptr_t.
is(h, T) == Downcast(p_[h], T)

\* Mutant of is_nullptr_t: no special case, the cast to holder<nullptr_t>.
is_nullptr_t_by_cast(h) == Downcast(p_[h], "nullptr_t")

\* is<nullptr_t>().
is_nullptr_t(h) == p_[h] = Null

empty(h) == p_[h] = Null

\* operator==, operator!= (shared_var, shared_var)
eq(h, g) == _equals(h, g)
ne(h, g) == ~_equals(h, g)

\* operator==, operator!= (shared_var, T) and (T, shared_var)
eq_val(h, v) == _equals_val(h, v)
ne_val(h, v) == ~_equals_val(h, v)
val_eq(v, h) == _equals_val(h, v)
val_ne(v, h) == ~_equals_val(h, v)

\* operator==, operator!= (shared_var, nullptr_t) and (nullptr_t, shared_var)
eq_null(h) == empty(h)
null_eq(h) == empty(h)
ne_null(h) == ~empty(h)
null_ne(h) == ~empty(h)

\* operator==, operator!= (shared_var, const CharT*) and (const CharT*, shared_var)
eq_cstr(h, W, b) == eq_val(h, basic_string(W, b))
cstr_eq(W, b, h) == eq_val(h, basic_string(W, b))
ne_cstr(h, W, b) == ~eq_cstr(h, W, b)
cstr_ne(W, b, h) == ~eq_cstr(h, W, b)

(***************************************************************************)
(* Constructors, assignment operators, destructor.                         *)
(***************************************************************************)
Running == status = "running"

\* Mutant of _hold: a handle that has a cell overwrites the value in it.
_hold_in_place(h, v) ==
    IF p_[h] = Null
    THEN LET c == FreshCell
         IN /\ p_' = [p_ EXCEPT ![h] = c]
            /\ SetHeap(make_shared(Heap, c, v))
    ELSE /\ p_' = p_
         /\ cell' = [cell EXCEPT ![p_[h]] = v]
         /\ use_count' = use_count

\* _hold: p_ = std::make_shared<holder<T>>(std::move(val)).
_hold(h, v) ==
    LET c == FreshCell
        H == Release(make_shared(Heap, c, v), p_[h])
    IN /\ p_' = [p_ EXCEPT ![h] = c]
       /\ SetHeap(H)

Construct(h) ==
    /\ Running
    /\ ~alive[h]
    /\ alive' = [alive EXCEPT ![h] = TRUE]

Assign(h) ==
    /\ Running
    /\ alive[h]
    /\ UNCHANGED alive

\* shared_var()
Ctor(h) ==
    /\ Construct(h)
    /\ p_' = [p_ EXCEPT ![h] = Null]
    /\ UNCHANGED <<cell, use_count, status>>

\* shared_var(const shared_var& rhs)
CtorCopy(h, rhs) ==
    /\ Construct(h)
    /\ alive[rhs]
    /\ p_' = [p_ EXCEPT ![h] = p_[rhs]]
    /\ SetHeap(Acquire(Heap, p_[rhs]))
    /\ UNCHANGED status

\* shared_var(shared_var&& val): p_ starts empty and is swapped with val.p_.
CtorMove(h, val) ==
    /\ Construct(h)
    /\ alive[val]
    /\ p_' = [p_ EXCEPT ![h] = p_[val], ![val] = Null]
    /\ UNCHANGED <<cell, use_count, status>>

\* Mutant of AssignCopy: the body of the move assignment.
AssignCopy_swaps(h, rhs) ==
    /\ Assign(h)
    /\ alive[rhs]
    /\ p_' = [p_ EXCEPT ![h] = p_[rhs], ![rhs] = p_[h]]
    /\ UNCHANGED <<cell, use_count, status>>

\* operator=(const shared_var& rhs): p_ = rhs.p_
AssignCopy(h, rhs) ==
    /\ Assign(h)
    /\ alive[rhs]
    /\ p_' = [p_ EXCEPT ![h] = p_[rhs]]
    /\ SetHeap(Release(Acquire(Heap, p_[rhs]), p_[h]))
    /\ UNCHANGED status

\* Mutant of AssignMove: p_ = std::move(rhs.p_), which releases what the
\* destination referenced and leaves the source empty.
AssignMove_resets(h, rhs) ==
    /\ Assign(h)
    /\ alive[rhs]
    /\ h # rhs
    /\ p_' = [p_ EXCEPT ![h] = p_[rhs], ![rhs] = Null]
    /\ SetHeap(Release(Heap, p_[h]))
    /\ UNCHANGED status

\* operator=(shared_var&& rhs): p_.swap(rhs.p_)
AssignMove(h, rhs) ==
    /\ Assign(h)
    /\ alive[rhs]
    /\ p_' = [p_ EXCEPT ![h] = p_[rhs], ![rhs] = p_[h]]
    /\ UNCHANGED <<cell, use_count, status>>

\* explicit shared_var(nullptr_t)
CtorNull(h) ==
    /\ Construct(h)
    /\ p_' = [p_ EXCEPT ![h] = Null]
    /\ UNCHANGED <<cell, use_count, status>>

\* operator=(nullptr_t): p_ = nullptr
AssignNull(h) ==
    /\ Assign(h)
    /\ p_' = [p_ EXCEPT ![h] = Null]
    /\ SetHeap(Release(Heap, p_[h]))
    /\ UNCHANGED status

\* explicit shared_var(const CharT * rhs)
CtorCStr(h, W, rhs) ==
    /\ Construct(h)
    /\ _hold(h, basic_string(W, rhs))
    /\ UNCHANGED status

\* operator=(const CharT * rhs)
AssignCStr(h, W, rhs) ==
    /\ Assign(h)
    /\ _hold(h, basic_string(W, rhs))
    /\ UNCHANGED status

\* explicit shared_var(const T& val)
CtorValCopy(h, val) ==
    /\ Construct(h)
    /\ _hold(h, val)
    /\ UNCHANGED status

\* explicit shared_var(T&& val)
CtorValMove(h, val) ==
    /\ Construct(h)
    /\ _hold(h, val)
    /\ UNCHANGED status

\* operator=(const T& rhs): _hold(T(rhs)), and then control flows off the end
\* of a function returning shared_var& without a return statement.  That is
\* undefined behaviour: the program either goes on (the returned reference
\* is indeterminate) or ends abnormally.
AssignValCopy(h, rhs) ==
    /\ Assign(h)
    /\ _hold(h, rhs)
    /\ status' \in {"running", "aborted"}

\* operator=(T&& rhs)
AssignValMove(h, rhs) ==
    /\ Assign(h)
    /\ _hold(h, rhs)
    /\ UNCHANGED status

\* ~shared_var(): the implicit destructor destroys p_.
Dtor(h) ==
    /\ Running
    /\ alive[h]
    /\ alive' = [alive EXCEPT ![h] = FALSE]
    /\ p_' = [p_ EXCEPT ![h] = Null]
    /\ SetHeap(Release(Heap, p_[h]))
    /\ UNCHANGED status

\* The program has default-constructed its first handle; the other handle
\* objects do not exist yet.
Init ==
    /\ alive = [h \in Handles |-> h = 1]
    /\ p_ = [h \in Handles |-> Null]
    /\ cell = [c \in CellIds |-> NoCell]
    /\ use_count = [c \in CellIds |-> 0]
    /\ status = "running"

Next ==
    \/ \E h \in Handles, v \in AllValues : AssignValCopy(h, v)
    \/ \E h \in Handles, v \in AllValues : AssignValMove(h, v)
    \/ \E h \in Handles, W \in Widths, b \in CStrings : AssignCStr(h, W, b)
    \/ \E h \in Handles : AssignNull(h)
    \/ \E h, g \in Handles : AssignCopy(h, g)
    \/ \E h, g \in Handles : AssignMove(h, g)
    \/ \E h \in Handles, v \in AllValues : CtorValCopy(h, v)
    \/ \E h \in Handles, v \in AllValues : CtorValMove(h, v)
    \/ \E h \in Handles, W \in Widths, b \in CStrings : CtorCStr(h, W, b)
    \/ \E h \in Handles : CtorNull(h)
    \/ \E h \in Handles : Ctor(h)
    \/ \E h, g \in Handles : CtorCopy(h, g)
    \/ \E h, g \in Handles : CtorMove(h, g)
    \/ \E h \in Handles : Dtor(h)

Spec == Init /\ [][Next]_vars

(***************************************************************************)
(* Properties.                                                             *)
(***************************************************************************)
\* The value a non-empty handle holds.
Held(h) == cell[p_[h]]

LiveHandles == {h \in Handles : alive[h]}

\* The step constructs or destroys handle h or changes what it references.
\* A constructor, assignment or destructor step that is not a stuttering
\* step does so to its target, so testing this first in a property about
\* the steps on h only saves evaluating them for the other handles.
Changed(h) == p_'[h] # p_[h] \/ alive'[h] # alive[h]

\* The step changes handle h or the content of the cell it references, the
\* only parts of the state that the queries and comparisons of h read.
HeldChanged(h) ==
    \/ Changed(h)
    \/ p_[h] # Null /\ cell'[p_[h]] # cell[p_[h]]

\* C2: a handle that is empty or holds a value of a type other than T2
\* answers is<T2>() with false, as<T2>() with the value-initialized T2 and
\* as<T2>(def) with def, and never with the value it holds.
C2_RecoveryFallsBack ==
    \A h \in LiveHandles, T2 \in Types :
        (p_[h] = Null \/ Held(h).type # T2) =>
            /\ ~is(h, T2)
            /\ as(h, T2) = DefaultValue(T2)
            /\ \A def \in Values(T2) : as_def(h, T2, def) = def
            /\ p_[h] # Null =>
                   /\ as(h, T2) # Held(h)
                   /\ \A def \in Values(T2) : as_def(h, T2, def) # Held(h)

\* A handle holds an int and is asked for the other types.
C2_Witness ==
    \E h \in LiveHandles :
        /\ p_[h] # Null
        /\ Held(h) = IntV(3)
        /\ ~is(h, "double")
        /\ as_def(h, "double", DoubleV(3)) = DoubleV(3)
        /\ as(h, "string") = StringV(<<>>)

\* The emptiness tests of handle h: empty(), == nullptr, nullptr == and
\* is<nullptr_t>() agree, all true exactly when the handle references no
\* cell, and an empty handle is of no other type.
TestsAgree(h) ==
    /\ empty(h) = (p_[h] = Null)
    /\ eq_null(h) = empty(h)
    /\ null_eq(h) = empty(h)
    /\ is_nullptr_t(h) = empty(h)
    /\ empty(h) => \A T \in Types : ~is(h, T)

\* C3: a default-constructed handle, a handle constructed from null and a
\* handle assigned null are empty, and the four emptiness tests of a handle
\* agree before and after every step that changes what the handle holds
\* (so in every reachable state, a state's handles being as the first state
\* or the last such step left them).
C3_NullIsEmpty ==
    [][\A h \in Handles :
           HeldChanged(h) =>
               /\ alive[h] => TestsAgree(h)
               /\ alive'[h] => TestsAgree(h)'
               /\ (Ctor(h) \/ CtorNull(h) \/ AssignNull(h)) =>
                      (alive[h] /\ empty(h) /\ eq_null(h) /\ is_nullptr_t(h))']_vars

\* An empty handle beside a handle that holds a value: the second was
\* assigned, the first was constructed empty or set to null.
C3_Witness ==
    \E h, g \in LiveHandles :
        /\ empty(h) /\ eq_null(h) /\ is_nullptr_t(h)
        /\ ~empty(g) /\ ne_null(g) /\ ~is_nullptr_t(g)

\* What the specification says handle == handle is.
SpecEquals(h, g) ==
    \/ p_[h] = Null /\ p_[g] = Null
    \/ /\ p_[h] # Null
       /\ p_[g] # Null
       /\ Held(h).type = Held(g).type
       /\ ValEq(Held(h), Held(g))

\* C5 as stated: handle == handle is the specified relation, it is
\* reflexive and symmetric, and values of different types are unequal.
C5_Original ==
    \A h, g \in LiveHandles :
        /\ eq(h, g) = SpecEquals(h, g)
        /\ eq(h, h)
        /\ eq(h, g) = eq(g, h)
        /\ (p_[h] # Null /\ p_[g] # Null /\ Held(h).type # Held(g).type) => ~eq(h, g)

\* C5 as amended: the same, with a == a only for a handle that is empty or
\* holds a value equal to itself under its type's == (a double NaN is not).
C5_EqualityRelation ==
    \A h, g \in LiveHandles :
        /\ eq(h, g) = SpecEquals(h, g)
        /\ eq(h, h) = (p_[h] = Null \/ ValEq(Held(h), Held(h)))
        /\ eq(h, g) = eq(g, h)
        /\ (p_[h] # Null /\ p_[g] # Null /\ Held(h).type # Held(g).type) => ~eq(h, g)

\* Equal values in two cells, and int 3 beside double 3.0.
C5_Witness ==
    \/ \E h, g \in LiveHandles :
           /\ p_[h] # Null /\ p_[g] # Null /\ p_[h] # p_[g]
           /\ Held(h) = Held(g)
           /\ eq(h, g)
    \/ \E h, g \in LiveHandles :
           /\ p_[h] # Null /\ p_[g] # Null
           /\ Held(h) = IntV(3) /\ Held(g) = DoubleV(3)
           /\ ~eq(h, g)

\* The values a handle is compared with: those handles are given, and some
\* that no handle ever holds.
Operands == AllValues \cup {IntV(4), DoubleV(4), StringV(<<97, 97>>)}

\* C6: handle == value is true exactly when the handle holds that type and
\* an equal value; the mirrored form agrees; every != is the negation of
\* its ==.
C6_ValueEquality ==
    \A h \in LiveHandles :
        /\ \A v \in Operands :
               /\ eq_val(h, v) =
                      (p_[h] # Null /\ Held(h).type = v.type /\ ValEq(Held(h), v))
               /\ val_eq(v, h) = eq_val(h, v)
               /\ ne_val(h, v) = ~eq_val(h, v)
               /\ val_ne(v, h) = ~val_eq(v, h)
        /\ \A g \in LiveHandles : ne(h, g) = ~eq(h, g)
        /\ ne_null(h) = ~eq_null(h)
        /\ null_ne(h) = ~null_eq(h)

\* One handle holds double 3.0, another is empty; both are compared with
\* int 3 and double 3.0.
C6_Witness ==
    \E h, g \in LiveHandles :
        /\ p_[h] # Null /\ Held(h) = DoubleV(3)
        /\ eq_val(h, DoubleV(3)) /\ ne_val(h, IntV(3))
        /\ empty(g) /\ val_ne(DoubleV(3), g)

\* The handles that reference cell c.
Owners(c) == {h \in LiveHandles : p_[h] = c}

\* C9: a cell is live exactly when a live handle references it, its use
\* count is the number of handles referencing it, and no handle references
\* a released cell.
C9_CellLifetime ==
    /\ \A c \in CellIds :
           /\ Live(c) = (Owners(c) # {})
           /\ use_count[c] = Cardinality(Owners(c))
    /\ \A h \in Handles : p_[h] # Null => alive[h] /\ Live(p_[h])

\* A cell shared by two handles beside a free cell that was released.
C9_Witness ==
    \E c \in CellIds :
        /\ use_count[c] = 2
        /\ \E d \in CellIds : d < c /\ ~Live(d)

\* A step that makes handle h hold the value v: construction from v or
\* assignment of v, by copy or by move.
HoldsValueStep(h, v) ==
    \/ CtorValCopy(h, v)
    \/ CtorValMove(h, v)
    \/ AssignValCopy(h, v)
    \/ AssignValMove(h, v)

\* C1: after a handle is constructed from v or assigned v, by copy or by
\* move, the program goes on and the handle answers is<T>() with true,
\* as<T>() with a value equal to v, handle == v and v == handle with true.
C1_HoldsAssignedValue ==
    [][\A h \in Handles, v \in AllValues :
           HoldsValueStep(h, v) =>
               (/\ Running
                /\ is(h, v.type)
                /\ ValEq(as(h, v.type), v)
                /\ eq_val(h, v)
                /\ val_eq(v, h))']_vars

\* An assignment to handle a from a value, a C-string, null or a copy of a
\* handle.
CopyingAssignment(a) ==
    \/ \E v \in AllValues : AssignValCopy(a, v) \/ AssignValMove(a, v)
    \/ \E W \in Widths, c \in CStrings : AssignCStr(a, W, c)
    \/ AssignNull(a)
    \/ \E g \in Handles : AssignCopy(a, g)

\* What handle b holds is the same before and after the step: b references
\* what it referenced, a cell with the type and value it had or nothing.
SameHeld(b) ==
    /\ alive'[b]
    /\ p_'[b] = p_[b]
    /\ p_[b] # Null => cell'[p_[b]] = cell[p_[b]]

CStrContents(b) ==
    LET k == CHOOSE i \in 1 .. Len(b) : b[i] = 0 /\ \A j \in 1 .. (i - 1) : b[j] # 0
    IN SubSeq(b, 1, k - 1)

\* The string type of a character width.
StringType(W) == IF W = "char" THEN "string" ELSE "wstring"

\* The contents of every buffer, and the string the code makes of every
\* buffer at every width, tabulated once.
ContentsOf == [b \in CStrings |-> CStrContents(b)]
StringOf == [W \in Widths |-> [b \in CStrings |-> basic_string(W, b)]]

\* C7 for one handle: handle == C-string is true exactly when the handle
\* holds a string of the matching character width with the same characters
\* (so a narrow string equals no wide C-string and a wide string no narrow
\* one).
CStrEquality(h) ==
    \A W \in Widths, b \in CStrings :
        /\ eq_cstr(h, W, b) =
               /\ p_[h] # Null
               /\ Held(h).type = StringType(W)
               /\ Held(h).str = ContentsOf[b]

\* The value handle h holds after the step.
NewHeld(h) == cell'[p_'[h]]

\* A step that constructs handle h from, or assigns to it, the C-string in
\* buffer b of width W. Such a step leaves h holding the string the code
\* makes of b, so only then are the two actions evaluated.
CStrStep(h, W, b) ==
    /\ p_'[h] # Null
    /\ NewHeld(h) = StringOf[W][b]
    /\ CtorCStr(h, W, b) \/ AssignCStr(h, W, b)

\* C7: a handle constructed from or assigned a C-string holds a string of
\* that character width with the C-string's characters, equal to the
\* C-string and to the string made of it; and handle == C-string is as
\* CStrEquality says, in the first state and after every step that changes
\* what the handle holds.
C7_CStringHeldAsString ==
    /\ \A h \in LiveHandles : CStrEquality(h)
    /\ [][\A h \in Handles :
              HeldChanged(h) =>
                  /\ alive'[h] => CStrEquality(h)'
                  /\ \A W \in Widths, b \in CStrings :
                         CStrStep(h, W, b) =>
                             (/\ is(h, StringType(W))
                              /\ \A T \in Types \ {StringType(W)} : ~is(h, T)
                              /\ Held(h).str = ContentsOf[b]
                              /\ eq_cstr(h, W, b)
                              /\ cstr_eq(W, b, h)
                              /\ eq_val(h, IF W = "char" THEN StringV(ContentsOf[b])
                                           ELSE WStringV(ContentsOf[b])))']_vars

\* A narrow and a wide string with the same characters, each compared with
\* C-strings of both widths.
C7_Witness ==
    \E h, g \in LiveHandles :
        /\ is(h, "string") /\ is(g, "wstring")
        /\ Held(h).str = <<97>> /\ Held(g).str = <<97>>
        /\ eq_cstr(h, "char", <<97, 0>>) /\ ne_cstr(h, "wchar_t", <<97, 0>>)
        /\ eq_cstr(g, "wchar_t", <<97, 0>>) /\ ne_cstr(g, "char", <<97, 0>>)

\* A step that makes handle h hold a new value: construction from or
\* assignment of a value or a C-string. The value is the one h holds after
\* the step.
HoldStep(h) ==
    /\ p_'[h] # Null
    /\ \/ HoldsValueStep(h, NewHeld(h))
       \/ \E W \in Widths, b \in CStrings : CStrStep(h, W, b)

\* C8: no step changes the type or value stored in a cell that exists: the
\* cell stays as it is or is released. A step that makes a handle hold a
\* value creates a cell that did not exist and repoints that handle alone.
C8_CellsImmutable ==
    [][/\ \A c \in CellIds : Live(c) => (cell'[c] = cell[c] \/ cell'[c] = NoCell)
       /\ \A h \in Handles :
              (Changed(h) /\ HoldStep(h)) =>
                  /\ ~Live(p_'[h])
                  /\ cell'[p_'[h]] # NoCell
                  /\ use_count'[p_'[h]] = 1
                  /\ \A g \in Handles \ {h} : p_'[g] = p_[g]]_vars

\* Two handles hold different values in two cells.
C8_Witness ==
    \E h, g \in LiveHandles :
        /\ p_[h] # Null /\ p_[g] # Null /\ p_[h] # p_[g]
        /\ Held(h) # Held(g)
        /\ use_count[p_[h]] = 1 /\ use_count[p_[g]] = 1

\* C10: a move between two handles creates, copies and releases no cell;
\* the destination then references what the source referenced, and the
\* source what the destination referenced (nothing after move
\* construction), so the destination's previous cell stays live.
C10_MoveTransfers ==
    [][\A h, g \in Handles :
           Changed(h) =>
               /\ CtorMove(h, g) =>
                      /\ p_'[h] = p_[g]
                      /\ p_'[g] = Null
                      /\ cell' = cell /\ use_count' = use_count
               /\ AssignMove(h, g) =>
                      /\ p_'[h] = p_[g]
                      /\ p_'[g] = p_[h]
                      /\ cell' = cell /\ use_count' = use_count
                      /\ p_[h] # Null => cell'[p_[h]] # NoCell]_vars

\* One handle is empty beside one that holds a cell no other handle shares.
C10_Witness ==
    \E h, g \in LiveHandles :
        /\ h # g
        /\ p_[h] # Null /\ use_count[p_[h]] = 1
        /\ p_[g] = Null

====
